---- MODULE Spec2Model ----
(***************************************************************************)
(* A model of SchoolTracker.py: the rating parser, the geocode cache and   *)
(* its file format, the address resolver, the main pipeline, the nearest   *)
(* station search and the rating colour mapper.                            *)
(*                                                                         *)
(* Strings are sequences of one-character strings.  A text file is a       *)
(* sequence of lines (each without its newline).  A rating is an integer   *)
(* scaled by Scale, so that two fractional digits are exact.               *)
(***************************************************************************)
EXTENDS Integers, Sequences, FiniteSets, TLC

VARIABLES
  \* --- parse_rating, one line at a time (SpecParse)
  pfile,      \* the lines of the rating file
  ppos,       \* lines consumed so far
  ppc,        \* "run" | "done" | "raised"
  pschools,   \* the records appended so far
  pidx,       \* number -> position in pschools
  pwarns,     \* warnings emitted so far
  plast       \* what the last line did: "none" | "blank" | "record" | "warn" | "raise"

pvars == <<pfile, ppos, ppc, pschools, pidx, pwarns, plast>>

VARIABLES
  \* --- one run of main (Spec)
  args,        \* the parsed command line
  rating_file, \* the lines of the rating file
  disk,        \* .cache.txt: None when absent, else Some(its lines)
  pc,          \* where main is
  heap,        \* the School objects parse_rating created
  active,      \* the list "schools" of main: positions in heap
  school_idx,  \* number -> position in heap
  ri,          \* the next school of the resolve loop
  hasCache,    \* hasattr(locate_address, 'cache')
  geocache,    \* locate_address.cache
  loaded,      \* the cache as it was loaded by the first call
  handlers,    \* the atexit registrations of save_locations
  requests,    \* the requests sent to the geocoder: [query, ok]
  last,        \* the last call of locate_address
  saves,       \* how many times save_locations ran
  sheets,      \* sheets of the house map read so far
  rows,        \* rows of the current sheet read so far
  cur,         \* the school of the current sheet (a position in heap)
  marks,       \* the marks generate_webpage wrote
  exitKind,    \* "none" | "return" | "fatal" | "exception"
  crashAt      \* where the uncaught exception was raised

mvars == <<args, rating_file, disk, pc, heap, active, school_idx, ri, hasCache,
           geocache, loaded, handlers, requests, last, saves, sheets, rows, cur,
           marks, exitKind, crashAt>>

VARIABLES
  \* --- the cache file, written and read back (SpecCache)
  cmap,        \* the cache at exit
  cfile,       \* the lines save_locations wrote
  cback,       \* what a fresh load_locations made of them
  cpc,         \* "held" | "saved" | "loaded"
  \* --- assign_metros on one school (SpecKd)
  kstations,   \* the stations of the metro map
  kheap,       \* the school, at the query coordinate
  kpc,         \* "query" | "assigned"
  \* --- rating_to_color on two ratings of one range (SpecColor)
  crange,      \* <<rmin, rmax>>
  cratings,    \* <<r1, r2>>, r1 <= r2
  cchannels,   \* the channels of the two colours
  ccolors,     \* the two colour strings
  colpc        \* "rated" | "colored"

cvars == <<cmap, cfile, cback, cpc>>
kvars == <<kstations, kheap, kpc>>
colvars == <<crange, cratings, cchannels, ccolors, colpc>>

----------------------------------------------------------------------------
\* Bounds of the model

MaxFileLines == 2      \* lines of a rating file in SpecParse
MaxLineLen == 3        \* length of the free-form lines of SpecParse
MaxSchools == 2        \* lines of the rating file of a run of main
MaxSheets == 1         \* sheets of the house map
MaxRows == 2           \* rows of a sheet
MaxEntries == 2        \* entries of a cache in SpecCache
MaxStations == 3       \* stations of a metro map in SpecKd
MaxRating == 4         \* ratings of SpecColor are -MaxRating..MaxRating
MaxFrac == 2           \* fractional digits a rating keeps exactly

----------------------------------------------------------------------------
\* Characters and strings

Tab == "\t"
Space == " "
Digits == {"0", "1", "2", "3", "4", "5", "6", "7", "8", "9"}
Letters == {"a", "b", "M", "o", "X"}
Puncts == {".", ",", "(", ")", "+", "-", "#", "/", "[", "]"}
Whites == {Space, Tab}
Chars == Digits \cup Letters \cup Puncts \cup Whites
NonTab == Chars \ {Tab}
\* \w of the regular expressions: letters and digits
WordChars == Digits \cup Letters

RECURSIVE Pow10(_)
Pow10(n) == IF n = 0 THEN 1 ELSE 10 * Pow10(n - 1)

Scale == Pow10(MaxFrac)

DigitChars == <<"0", "1", "2", "3", "4", "5", "6", "7", "8", "9">>

DigitVal(c) == (CHOOSE i \in 1..10 : DigitChars[i] = c) - 1

\* str() of a non-negative integer
RECURSIVE IntStr(_)
IntStr(n) ==
  IF n < 10 THEN <<DigitChars[n + 1]>>
  ELSE IntStr(n \div 10) \o <<DigitChars[(n % 10) + 1]>>

\* The code points of the characters, for the order of sorted()
CodePoint(c) ==
  CASE c = Tab -> 9 [] c = Space -> 32 [] c = "#" -> 35 [] c = "(" -> 40
    [] c = ")" -> 41 [] c = "+" -> 43 [] c = "," -> 44 [] c = "-" -> 45
    [] c = "." -> 46 [] c = "/" -> 47 [] c \in Digits -> 48 + DigitVal(c)
    [] c = "M" -> 77 [] c = "X" -> 88 [] c = "[" -> 91 [] c = "]" -> 93
    [] c = "a" -> 97 [] c = "b" -> 98 [] c = "o" -> 111

\* a < b for two strings, as Python orders str
RECURSIVE StrLess(_, _)
StrLess(a, b) ==
  IF b = <<>> THEN FALSE
  ELSE IF a = <<>> THEN TRUE
  ELSE IF a[1] = b[1] THEN StrLess(Tail(a), Tail(b))
  ELSE CodePoint(a[1]) < CodePoint(b[1])

\* int() of a string of digits
RECURSIVE ToInt(_)
ToInt(s) ==
  IF s = <<>> THEN 0
  ELSE 10 * ToInt(SubSeq(s, 1, Len(s) - 1)) + DigitVal(s[Len(s)])

\* The last position of the run of characters of class C that starts at i
\* (i - 1 when s[i] is not in C): a greedy C* from position i.
RECURSIVE RunEnd(_, _, _)
RunEnd(s, i, C) ==
  IF i <= Len(s) /\ s[i] \in C THEN RunEnd(s, i + 1, C) ELSE i - 1

\* str.strip()
Strip(s) ==
  IF \A i \in 1..Len(s) : s[i] \in Whites THEN <<>>
  ELSE LET a == CHOOSE i \in 1..Len(s) :
                  s[i] \notin Whites /\ \A j \in 1..(i - 1) : s[j] \in Whites
           b == CHOOSE i \in 1..Len(s) :
                  s[i] \notin Whites /\ \A j \in (i + 1)..Len(s) : s[j] \in Whites
       IN SubSeq(s, a, b)

\* re.sub(r'\s+', ' ', s)
RECURSIVE Collapse(_)
Collapse(s) ==
  IF s = <<>> THEN <<>>
  ELSE IF s[1] \in Whites
       THEN <<Space>> \o Collapse(SubSeq(s, RunEnd(s, 1, Whites) + 1, Len(s)))
       ELSE <<s[1]>> \o Collapse(Tail(s))

\* re.sub(r'#.*', '', line)
StripComment(s) ==
  IF \E i \in 1..Len(s) : s[i] = "#"
  THEN LET h == CHOOSE i \in 1..Len(s) :
                  s[i] = "#" /\ \A j \in 1..(i - 1) : s[j] # "#"
       IN SubSeq(s, 1, h - 1)
  ELSE s

\* s.replace(',', '.')
ReplaceComma(s) == [i \in 1..Len(s) |-> IF s[i] = "," THEN "." ELSE s[i]]

\* Whether a in b for two strings (substring test)
Contains(b, a) ==
  \E i \in 0..(Len(b) - Len(a)) : SubSeq(b, i + 1, i + Len(a)) = a

----------------------------------------------------------------------------
\* float() of a string over digits and dots

NumDots(s) == Cardinality({i \in 1..Len(s) : s[i] = "."})

\* float(s) raises ValueError unless s has at least one digit and at most one dot
FloatOK(s) ==
  /\ \A i \in 1..Len(s) : s[i] \in Digits \cup {"."}
  /\ NumDots(s) <= 1
  /\ \E i \in 1..Len(s) : s[i] \in Digits

\* The value of float(s), scaled by Scale (fractional digits beyond MaxFrac
\* are dropped)
FloatVal(s) ==
  IF NumDots(s) = 0 THEN ToInt(s) * Scale
  ELSE LET d == CHOOSE i \in 1..Len(s) : s[i] = "."
           ip == SubSeq(s, 1, d - 1)
           fp == SubSeq(s, d + 1, Len(s))
           fk == IF Len(fp) > MaxFrac THEN SubSeq(fp, 1, MaxFrac) ELSE fp
       IN ToInt(ip) * Scale + ToInt(fk) * Pow10(MaxFrac - Len(fk))

----------------------------------------------------------------------------
\* The three dialects of parse_rating, as the regular expressions match them

DefaultCity == <<"M", "o">>

\* ^([0-9]+)\. +(.*) +\((?:[+-][0-9]+|0)\) *$
\* The line is stripped, so it ends with ")"; the delta holds no parenthesis,
\* so its "(" is the last one of the line.
IsDelta(s) ==
  \/ s = <<"0">>
  \/ /\ Len(s) >= 2
     /\ s[1] \in {"+", "-"}
     /\ \A i \in 2..Len(s) : s[i] \in Digits

LastPos(s, c) ==
  IF \E i \in 1..Len(s) : s[i] = c
  THEN CHOOSE i \in 1..Len(s) : s[i] = c /\ \A j \in (i + 1)..Len(s) : s[j] # c
  ELSE 0

Match1(line) ==
  LET n == Len(line)
      d == RunEnd(line, 1, Digits)
      p == LastPos(line, "(")
      ok == /\ d >= 1
            /\ d + 1 <= n /\ line[d + 1] = "."
            /\ n >= 1 /\ line[n] = ")"
            /\ p >= d + 4
            /\ IsDelta(SubSeq(line, p + 1, n - 1))
            /\ line[d + 2] = Space
            /\ line[p - 1] = Space
      \* " +" is greedy, but leaves one space for the second " +"
      a == IF RunEnd(line, d + 2, {Space}) > p - 2 THEN p - 2
           ELSE RunEnd(line, d + 2, {Space})
  IN IF ok
     THEN [ok |-> TRUE, g1 |-> SubSeq(line, 1, d), g2 |-> SubSeq(line, a + 1, p - 2)]
     ELSE [ok |-> FALSE, g1 |-> <<>>, g2 |-> <<>>]

\* ^(.*)\t([0-9.]+)$
\* [0-9.] excludes the tab, so the tab is the last one of the line.
Match2(line) ==
  LET n == Len(line)
      t == LastPos(line, Tab)
      ok == /\ t >= 1
            /\ t < n
            /\ \A i \in (t + 1)..n : line[i] \in Digits \cup {"."}
  IN IF ok
     THEN [ok |-> TRUE, g1 |-> SubSeq(line, 1, t - 1), g2 |-> SubSeq(line, t + 1, n)]
     ELSE [ok |-> FALSE, g1 |-> <<>>, g2 |-> <<>>]

\* The ends of the consecutive greedy runs of the classes cs from position i
RECURSIVE RunEnds(_, _, _)
RunEnds(s, i, cs) ==
  IF cs = <<>> THEN <<>>
  ELSE <<RunEnd(s, i, cs[1])>> \o RunEnds(s, RunEnd(s, i, cs[1]) + 1, Tail(cs))

\* ([^\t]+)\t+([^\t]+\t+[^\t]+)\t+([0-9,.]+) from position s3: every run is
\* forced (a [^\t]+ ends at the next tab, a \t+ at the next non-tab), the
\* last one is greedy and not anchored.  e holds the ends of the seven runs.
Groups3(line, s3, e) ==
  [ok |-> /\ e[1] >= s3 /\ e[2] > e[1] /\ e[3] > e[2] /\ e[4] > e[3]
          /\ e[5] > e[4] /\ e[6] > e[5] /\ e[7] > e[6],
   g1 |-> SubSeq(line, s3, e[1]),
   g2 |-> SubSeq(line, e[2] + 1, e[5]),
   g3 |-> SubSeq(line, e[6] + 1, e[7])]

Rest3(line, s3) ==
  Groups3(line, s3,
          RunEnds(line, s3, <<NonTab, {Tab}, NonTab, {Tab}, NonTab, {Tab},
                              Digits \cup {",", "."}>>))

\* ^[0-9]+[ \t]+ then Rest3: [ \t]+ is greedy and backtracks, so the name
\* starts after the longest prefix of the white run that lets the rest match.
Match3(line) ==
  LET d == RunEnd(line, 1, Digits)
      good == {e \in (d + 1)..RunEnd(line, d + 1, Whites) : Rest3(line, e + 1).ok}
  IN IF d >= 1 /\ good # {}
     THEN Rest3(line, (CHOOSE e \in good : \A f \in good : f <= e) + 1)
     ELSE [ok |-> FALSE, g1 |-> <<>>, g2 |-> <<>>, g3 |-> <<>>]

----------------------------------------------------------------------------
\* School records.  An optional value is a tuple: <<>> is None, <<x>> is x.

None == <<>>
Some(x) == <<x>>

\* School.__init__
School(name, city, number, rating) ==
  [name |-> name, city |-> city, number |-> number, rating |-> rating,
   address |-> None, lat |-> None, lng |-> None, station |-> None,
   houses |-> <<>>]

\* re.findall(r'\b[0-9]+\b', name): the maximal digit runs with no word
\* character on either side, left to right
RECURSIVE TokensFrom(_, _)
TokensFrom(s, i) ==
  IF i > Len(s) THEN <<>>
  ELSE IF s[i] \in Digits /\ (i = 1 \/ s[i - 1] \notin WordChars)
       THEN LET e == RunEnd(s, i, Digits)
            IN IF e = Len(s) \/ s[e + 1] \notin WordChars
               THEN <<SubSeq(s, i, e)>> \o TokensFrom(s, e + 1)
               ELSE TokensFrom(s, e + 1)
       ELSE TokensFrom(s, i + 1)

RenamedFrom == 1567
RenamedTo == 67

\* "Extract school's number"
SchoolNumber(name) ==
  LET nums == TokensFrom(name, 1)
  IN IF nums = <<>> THEN None
     ELSE IF Len(nums) > 1 THEN Some(ToInt(nums[1]))
     ELSE IF ToInt(nums[1]) = RenamedFrom THEN Some(RenamedTo)
     ELSE Some(ToInt(nums[1]))

\* The if/elif chain over the three matches m1, m2, m3 of a line: which
\* dialect takes it, and the name, city and rating it yields, or the
\* ValueError float() raises.
Dialects(m1, m2, m3) ==
  IF m1.ok
  THEN [kind |-> "record", dialect |-> 1, name |-> m1.g2,
        city |-> DefaultCity, rating |-> (0 - ToInt(m1.g1)) * Scale]
  ELSE IF m2.ok
  THEN IF FloatOK(m2.g2)
       THEN [kind |-> "record", dialect |-> 2, name |-> m2.g1,
             city |-> DefaultCity,
             rating |-> (FloatVal(m2.g2) \div Scale) * Scale]
       ELSE [kind |-> "raise", dialect |-> 2, name |-> <<>>,
             city |-> <<>>, rating |-> 0]
  ELSE IF m3.ok
  THEN IF FloatOK(ReplaceComma(m3.g3))
       THEN [kind |-> "record", dialect |-> 3, name |-> m3.g1,
             city |-> m3.g2, rating |-> FloatVal(ReplaceComma(m3.g3))]
       ELSE [kind |-> "raise", dialect |-> 3, name |-> <<>>,
             city |-> <<>>, rating |-> 0]
  ELSE [kind |-> "warn", dialect |-> 0, name |-> <<>>,
        city |-> <<>>, rating |-> 0]

\* The dialect dispatch of one stripped, non-empty line
Dispatch(line) == Dialects(Match1(line), Match2(line), Match3(line))

\* School(name, city, num, rating) for the normalised name and city
NewSchool(name, city, rating) == School(name, city, SchoolNumber(name), rating)

NoSchool == School(<<>>, <<>>, None, 0)

\* What follows the dispatch d of a line
Parsed(d) ==
  IF d.kind = "record"
  THEN [kind |-> "record",
        school |-> NewSchool(Collapse(Strip(d.name)), Collapse(Strip(d.city)),
                             d.rating)]
  ELSE [kind |-> d.kind, school |-> NoSchool]

ParseStripped(line) ==
  IF line = <<>> THEN [kind |-> "blank", school |-> NoSchool]
  ELSE Parsed(Dispatch(line))

\* The body of the loop of parse_rating for one raw line:
\* "blank" (skipped), "record" (with the School appended), "warn" or "raise".
ParseLine(raw) == ParseStripped(Strip(StripComment(raw)))

\* idx[num] = schools[-1]
IdxPut(idx, number, pos) ==
  IF number = None THEN idx
  ELSE [k \in DOMAIN idx \cup {number[1]} |->
          IF k = number[1] THEN pos ELSE idx[k]]

\* parse_rating on a whole file: the schools and the index it returns, or
\* raised = TRUE when float() raised on some line.  r is what the line at i did.
RECURSIVE ParseFrom(_, _, _, _)
ParseMore(file, i, schools, idx, r) ==
  CASE r.kind = "raise" ->
         [raised |-> TRUE, schools |-> schools, idx |-> idx]
    [] r.kind = "record" ->
         ParseFrom(file, i + 1, Append(schools, r.school),
                   IdxPut(idx, r.school.number, Len(schools) + 1))
    [] OTHER -> ParseFrom(file, i + 1, schools, idx)

ParseFrom(file, i, schools, idx) ==
  IF i > Len(file) THEN [raised |-> FALSE, schools |-> schools, idx |-> idx]
  ELSE ParseMore(file, i, schools, idx, ParseLine(file[i]))

parse_rating(file) == ParseFrom(file, 1, <<>>, <<>>)

----------------------------------------------------------------------------
\* The rating files of SpecParse

\* All strings over alphabet A of length at most n
RECURSIVE StringsUpTo(_, _)
StringsUpTo(A, n) ==
  IF n = 0 THEN {<<>>}
  ELSE LET shorter == StringsUpTo(A, n - 1)
       IN shorter \cup {Append(s, c) : s \in shorter, c \in A}

\* Free-form lines over digits, dots, commas, tabs, letters, spaces, comments
FreeLines == StringsUpTo({"1", ".", ",", Tab, "a", Space, "#"}, MaxLineLen)

SchoolNames ==
  { <<>>, <<"a">>, <<"a", " ", "b">>, <<"a", " ", " ", "b">>,
    <<"a", " ", "1", "5", "6", "7">>, <<"1", "5", "6", "7">>,
    <<"1", "5", "6", "7", " ", "2">>, <<"2", " ", "1", "5", "6", "7">>,
    <<"a", "1", "5", "6", "7">>, <<"0", "1", "5", "6", "7">>,
    <<"1", "5", " ", "1", "6">>, <<"a", " ", "6", "7">>,
    <<"1", "5", "6", "7", "-", "2">> }

\* "<rank>. <name> (<delta>)"
Lines1 ==
  { r \o <<".">> \o sp \o nm \o <<" ">> \o dl :
      r \in {<<"1">>, <<"1", "2">>},
      sp \in {<<" ">>, <<" ", " ">>},
      nm \in SchoolNames,
      dl \in {<<"(", "0", ")">>, <<"(", "+", "1", ")">>, <<"(", "-", "2", ")">>,
              <<"(", "1", ")">>} }

\* "<name><TAB><number>"
Lines2 ==
  { nm \o <<Tab>> \o nu :
      nm \in SchoolNames,
      nu \in StringsUpTo({"9", "5", "."}, 3) }

\* "<rank><WS><name><TAB><region><TAB><city><TAB><decimal>"
Lines3 ==
  { <<"1">> \o ws \o nm \o <<Tab>> \o rg \o <<Tab>> \o ct \o <<Tab>> \o de :
      ws \in {<<" ">>, <<Tab>>, <<" ", Tab>>},
      nm \in {<<"a">>, <<" ">>, <<"a", " ", "5">>},
      rg \in {<<"X">>, <<"M", "o">>},
      ct \in {<<"M", "o">>, <<"X", " ">>},
      de \in StringsUpTo({"9", ",", "."}, 3) }

FirstLines == FreeLines \cup Lines1 \cup Lines2 \cup Lines3

\* The lines that may follow the first: one of each outcome
NextLines ==
  { <<>>, <<"a">>, <<"a", Tab, "5">>, <<"a", Tab, ".">>,
    <<"1", ".", " ", "1", "5", "6", "7", " ", "(", "0", ")">>,
    <<"1", " ", "a", " ", "6", "7", Tab, "X", Tab, "M", "o", Tab, "9", ",", "5">> }

RECURSIVE RatingFilesOf(_)
RatingFilesOf(n) ==
  IF n = 1 THEN {<<l>> : l \in FirstLines}
  ELSE LET shorter == RatingFilesOf(n - 1)
       IN shorter \cup {Append(f, l) : f \in {g \in shorter : Len(g) = n - 1},
                                       l \in NextLines}

RatingFiles == {<<>>} \cup RatingFilesOf(MaxFileLines)

----------------------------------------------------------------------------
\* SpecParse: parse_rating reading a rating file line by line

ParseInit ==
  /\ pfile \in RatingFiles
  /\ ppos = 0
  /\ ppc = "run"
  /\ pschools = <<>>
  /\ pidx = <<>>
  /\ pwarns = 0
  /\ plast = "none"

\* One iteration of "for line in f"
ParseStep ==
  /\ ppc = "run"
  /\ ppos < Len(pfile)
  /\ \E r \in {ParseLine(pfile[ppos + 1])} :
        /\ ppos' = ppos + 1
        /\ plast' = r.kind
        /\ ppc' = IF r.kind = "raise" THEN "raised" ELSE "run"
        /\ pwarns' = IF r.kind = "warn" THEN pwarns + 1 ELSE pwarns
        /\ pschools' = IF r.kind = "record" THEN Append(pschools, r.school)
                       ELSE pschools
        /\ pidx' = IF r.kind = "record"
                   THEN IdxPut(pidx, r.school.number, Len(pschools) + 1)
                   ELSE pidx
  /\ UNCHANGED pfile

\* "return schools, idx" at the end of the file
ParseReturn ==
  /\ ppc = "run"
  /\ ppos = Len(pfile)
  /\ ppc' = "done"
  /\ UNCHANGED <<pfile, ppos, pschools, pidx, pwarns, plast>>

----------------------------------------------------------------------------
\* The geocode cache and its file: a cache maps a query to
\* [address, coords], coords being <<lng, lat>> as the geocoder orders them.
\* A coordinate is a small natural number, written as one decimal numeral.

EmptyCache == <<>>

CachePut(cache, query, address, coords) ==
  [q \in DOMAIN cache \cup {query} |->
     IF q = query THEN [address |-> address, coords |-> coords] ELSE cache[q]]

\* '%s' of the coordinate list: "[lng, lat]"
CoordsStr(coords) ==
  <<"[">> \o IntStr(coords[1]) \o <<",", Space>> \o IntStr(coords[2]) \o <<"]">>

\* eval() of such a line
EvalCoords(line) ==
  LET c == CHOOSE i \in 1..Len(line) : line[i] = ","
  IN <<ToInt(SubSeq(line, 2, c - 1)), ToInt(SubSeq(line, c + 2, Len(line) - 1))>>

\* sorted(): the keys of the cache in ascending order
RECURSIVE SortedKeys(_)
SortedKeys(keys) ==
  IF keys = {} THEN <<>>
  ELSE LET m == CHOOSE k \in keys : \A o \in keys \ {k} : StrLess(k, o)
       IN <<m>> \o SortedKeys(keys \ {m})

RECURSIVE WriteEntries(_, _)
WriteEntries(cache, keys) ==
  IF keys = <<>> THEN <<>>
  ELSE <<keys[1], cache[keys[1]].address, CoordsStr(cache[keys[1]].coords)>>
       \o WriteEntries(cache, Tail(keys))

\* save_locations: the lines written to the cache file
save_locations(cache) == WriteEntries(cache, SortedKeys(DOMAIN cache))

\* load_locations: the loop over the lines of a file whose groups are whole
RECURSIVE LoadFrom(_, _, _)
LoadFrom(file, i, cache) ==
  IF i > Len(file) THEN cache
  ELSE LET query == Strip(file[i])
       IN IF query = <<>> THEN cache
          ELSE LoadFrom(file, i + 3,
                        CachePut(cache, query, Strip(file[i + 1]),
                                 EvalCoords(Strip(file[i + 2]))))

load_locations(file) == LoadFrom(file, 1, EmptyCache)

----------------------------------------------------------------------------
\* locate_address

NotFound == <<None, None, None>>

\* The geocoder's answers: a status and the features of a 200 answer, each
\* with the name and the description of its properties and its coordinates.
StatusOK == 200

Feature(name, description, coords) ==
  [name |-> name, description |-> description, coords |-> coords]

Responses ==
  { [status |-> 200, features |-> <<Feature(<<"a">>, <<"X">>, <<1, 2>>)>>],
    [status |-> 200, features |-> <<Feature(<<"b">>, <<"M">>, <<2, 0>>),
                                    Feature(<<"a">>, <<"X">>, <<1, 2>>)>>],
    [status |-> 200, features |-> <<>>],
    [status |-> 403, features |-> <<>>] }

\* "if query in cache": the stored entry, no request
CacheHit(query, cache) ==
  [request |-> FALSE, cache |-> cache,
   result |-> <<Some(cache[query].address), Some(cache[query].coords[2]),
                Some(cache[query].coords[1])>>]

\* A lookup that starts the cache afresh with what it found
LookupFresh(query, cache, is_org, resp) ==
  IF resp.status # StatusOK
  THEN [request |-> TRUE, cache |-> cache, result |-> NotFound]
  ELSE IF Len(resp.features) = 0
  THEN [request |-> TRUE, cache |-> cache, result |-> NotFound]
  ELSE LET res0 == resp.features[1]
           address == IF is_org THEN res0.description
                      ELSE res0.name \o <<",", Space>> \o res0.description
           coords == res0.coords
       IN [request |-> TRUE,
           cache |-> CachePut(EmptyCache, query, address, coords),
           result |-> <<Some(address), Some(coords[2]), Some(coords[1])>>]

\* The request to the geocoder and what is made of its answer resp: only a
\* 200 answer with a feature is stored
Lookup(query, cache, is_org, resp) ==
  IF resp.status # StatusOK
  THEN [request |-> TRUE, cache |-> cache, result |-> NotFound]
  ELSE IF Len(resp.features) = 0
  THEN [request |-> TRUE, cache |-> cache, result |-> NotFound]
  ELSE LET res0 == resp.features[1]
           address == IF is_org THEN res0.description
                      ELSE res0.name \o <<",", Space>> \o res0.description
           coords == res0.coords
       IN [request |-> TRUE,
           cache |-> CachePut(cache, query, address, coords),
           result |-> <<Some(address), Some(coords[2]), Some(coords[1])>>]

\* locate_address with the cache-only test removed
locate_address_online(query, cache, cache_only, is_org, resp) ==
  IF query \in DOMAIN cache
  THEN CacheHit(query, cache)
  ELSE Lookup(query, cache, is_org, resp)

\* locate_address that stores nothing
locate_address_forgetful(query, cache, cache_only, is_org, resp) ==
  IF query \in DOMAIN cache
  THEN CacheHit(query, cache)
  ELSE IF cache_only
  THEN [request |-> FALSE, cache |-> cache, result |-> NotFound]
  ELSE [Lookup(query, cache, is_org, resp) EXCEPT !.cache = cache]

\* One call, given the cache as it is after the lazy load: whether a request
\* is sent, the triple returned and the cache afterwards.  resp is the
\* answer the geocoder gives if it is asked.
locate_address(query, cache, cache_only, is_org, resp) ==
  IF query \in DOMAIN cache
  THEN CacheHit(query, cache)
  ELSE IF cache_only
  THEN [request |-> FALSE, cache |-> cache, result |-> NotFound]
  ELSE Lookup(query, cache, is_org, resp)

----------------------------------------------------------------------------
\* Stations and the k-d tree over them

Station(name, line, lat, lng) ==
  [name |-> name, line |-> line, lat |-> lat, lng |-> lng]

\* An item that is the latitude on both axes
StationItemLat(st, i) == st.lat

\* Station.__getitem__
StationItem(st, i) == IF i = 0 THEN st.lat ELSE st.lng

\* The query tuple (s.lat, s.lng), indexed from 0
PointItem(pt, i) == pt[i + 1]

\* list.sort(key=lambda point: point[axis]): stable.  The points are inserted
\* from the last to the first, each before its equals, so that equal keys keep
\* the order of the list.
RECURSIVE SortByAxis(_, _)
SortByAxis(points, axis) ==
  IF points = <<>> THEN <<>>
  ELSE LET rest == SortByAxis(Tail(points), axis)
           st == points[1]
           k == Cardinality({j \in 1..Len(rest) :
                               StationItem(rest[j], axis) < StationItem(st, axis)})
       IN SubSeq(rest, 1, k) \o <<st>> \o SubSeq(rest, k + 1, Len(rest))

EmptyNode == [empty |-> TRUE]

\* kdtree.create: sort by the axis, split at the median, alternate the axis
RECURSIVE KdCreate(_, _)
KdCreate(points, axis) ==
  IF points = <<>> THEN EmptyNode
  ELSE LET sorted == SortByAxis(points, axis)
           median == Len(sorted) \div 2
       IN [empty |-> FALSE,
           data |-> sorted[median + 1],
           axis |-> axis,
           left |-> KdCreate(SubSeq(sorted, 1, median), (axis + 1) % 2),
           right |-> KdCreate(SubSeq(sorted, median + 2, Len(sorted)),
                              (axis + 1) % 2)]

\* The squared planar distance of a station to the query
Dist2(st, pt) ==
  (StationItem(st, 0) - PointItem(pt, 0)) * (StationItem(st, 0) - PointItem(pt, 0))
  + (StationItem(st, 1) - PointItem(pt, 1)) * (StationItem(st, 1) - PointItem(pt, 1))

NoBest == [found |-> FALSE]

\* The descent of the nearest-neighbour search: the node itself, then the
\* query's side, then the other side when the splitting plane is nearer than
\* the best found so far.
RECURSIVE SearchNode(_, _, _)
SearchNode(node, pt, best) ==
  IF node.empty THEN best
  ELSE LET d == Dist2(node.data, pt)
           b1 == IF ~best.found \/ d < best.dist
                 THEN [found |-> TRUE, data |-> node.data, dist |-> d]
                 ELSE best
           plane == PointItem(pt, node.axis) - StationItem(node.data, node.axis)
           lower == PointItem(pt, node.axis) < StationItem(node.data, node.axis)
           near == IF lower THEN node.left ELSE node.right
           far == IF lower THEN node.right ELSE node.left
           b2 == SearchNode(near, pt, b1)
       IN IF plane * plane < b2.dist THEN SearchNode(far, pt, b2) ELSE b2

\* station_map.search_nn(point): the nearest node, if the tree has one
search_nn(tree, pt) == SearchNode(tree, pt, NoBest)

\* load_metro_map: the k-d tree over the stations of the map
load_metro_map(stations) == KdCreate(stations, 0)

\* The body of the loop of assign_metros for a school at (lat, lng): the
\* station it is given, or the failure on an empty map
AssignStation(tree, lat, lng) ==
  LET nn == search_nn(tree, <<lat, lng>>)
  IN IF nn.found THEN [raised |-> FALSE, station |-> nn.data]
     ELSE [raised |-> TRUE, station |-> Station(<<>>, <<>>, 0, 0)]

----------------------------------------------------------------------------
\* rating_to_color

ColorA == <<255, 255, 255>>
ColorB == <<255, 0, 0>>

\* round(x) of the float x computed for the exact value n / d (d > 0).  The
\* float differs from n / d by rounding error only, so round() gives the
\* nearest integer, and at an exact half either neighbour, as the error
\* falls: tie (0 or 1) is the direction.
RoundDiv(n, d, tie) ==
  LET q == n \div d
      r == n % d
  IN IF 2 * r < d THEN q
     ELSE IF 2 * r > d THEN q + 1
     ELSE q + tie

\* The interpolation with the two colours exchanged
ChannelSwapped(a, b, r, rmin, rmax, tie) ==
  RoundDiv(a * (r - rmin) + b * (rmax - r), rmax - rmin, tie)

\* round(b * alpha + a * (1 - alpha)) with alpha = (r - rmin) / (rmax - rmin)
Channel(a, b, r, rmin, rmax, tie) ==
  RoundDiv(b * (r - rmin) + a * (rmax - r), rmax - rmin, tie)

HexChars == <<"0", "1", "2", "3", "4", "5", "6", "7", "8", "9",
              "a", "b", "c", "d", "e", "f">>

RECURSIVE HexStr(_)
HexStr(n) ==
  IF n < 16 THEN <<HexChars[n + 1]>>
  ELSE HexStr(n \div 16) \o <<HexChars[(n % 16) + 1]>>

\* '%02x' % c
Hex02(c) ==
  IF c < 0 THEN <<"-">> \o HexStr(0 - c)
  ELSE IF c < 16 THEN <<"0">> \o HexStr(c)
  ELSE HexStr(c)

\* The list C of rating_to_color
Channels(r, rmin, rmax, tie) ==
  [k \in 1..3 |-> Channel(ColorA[k], ColorB[k], r, rmin, rmax, tie)]

\* The colour string, or the ZeroDivisionError of a zero-width range
rating_to_color(r, rmin, rmax, tie) ==
  IF rmax = rmin THEN [raised |-> TRUE, color |-> <<>>]
  ELSE LET C == Channels(r, rmin, rmax, tie)
       IN [raised |-> FALSE, color |-> Hex02(C[1]) \o Hex02(C[2]) \o Hex02(C[3])]

----------------------------------------------------------------------------
\* main: its inputs

CityName == <<"M", "o">>

\* city_map.get(args.city, None) is not None
KnownCity(c) == c = CityName

Args(jsapi, places, city, cache_only, min_rating, skip, house_map) ==
  [jsapi_key |-> jsapi, places_key |-> places, city |-> city,
   cache_only |-> cache_only, min_rating |-> min_rating,
   skip_schools |-> skip, house_map |-> house_map]

\* --min-rating: None is the default, float('-inf')
MinRatings == {None, Some(0)}
\* --skip-schools: None, or a pattern that is a literal string
SkipPatterns == {None, Some(<<"6">>)}

MainLines ==
  { <<"1", ".", " ", "a", " ", "(", "0", ")">>,
    <<"a", " ", "6", "7", Tab, "5">>,
    <<"1", " ", "b", " ", "5", Tab, "X", Tab, "X", Tab, "9", ",", "5">>,
    <<"a", Tab, ".">> }

RECURSIVE MainFilesOf(_)
MainFilesOf(n) ==
  IF n = 0 THEN {<<>>}
  ELSE LET shorter == MainFilesOf(n - 1)
       IN shorter \cup {Append(f, l) : f \in shorter, l \in MainLines}

\* .cache.txt before the run: absent, or as an earlier run saved it
DiskStates ==
  { None,
    Some(save_locations(CachePut(EmptyCache, <<"a", " ", "M", "o">>,
                                 <<"X">>, <<1, 2>>))) }

\* The names of the sheets of the house map, and the first cells of its rows
SheetNames == { <<"6", "7", "-", "a">>, <<"5", "-">>, <<"9", "-">>, <<"a">> }
RowCells == { <<"X", " ", "/", " ", "a">>, <<"X", " ", "/", " ">>, <<"X">> }

\* maps/moscow_metro.json
MetroStations ==
  << Station(<<"a">>, <<"X">>, 0, 0),
     Station(<<"b">>, <<"X">>, 2, 2),
     Station(<<"a">>, <<"M">>, 0, 2) >>

----------------------------------------------------------------------------
\* main: the helpers of its steps

\* ^([0-9]+)- on a sheet name: the number, or None
SheetNumber(name) ==
  LET d == RunEnd(name, 1, Digits)
  IN IF d >= 1 /\ d < Len(name) /\ name[d + 1] = "-"
     THEN Some(ToInt(SubSeq(name, 1, d)))
     ELSE None

\* ^.+ \/ (.*) on a cell: group 1, after the last " / " that has text before
HouseMatch(address) ==
  LET ps == {q \in 2..(Len(address) - 2) :
               SubSeq(address, q, q + 2) = <<Space, "/", Space>>}
  IN IF ps = {} THEN None
     ELSE LET q == CHOOSE x \in ps : \A y \in ps : y <= x
          IN Some(SubSeq(address, q + 3, Len(address)))

\* km2lng(km, lat) fails with a TypeError when lat is None.  Its value, a
\* span in degrees, only goes into the request.
km2lng_raises(lat) == lat = None

\* The three filters of main on the parsed schools: the positions kept
FilterSchools(hp, a) ==
  LET all == [j \in 1..Len(hp) |-> j]
      InCity(j) == Contains(hp[j].city, CityName)
      Rated(j) == a.min_rating = None \/ hp[j].rating >= a.min_rating[1] * Scale
      Kept(j) == a.skip_schools = None \/ ~Contains(hp[j].name, a.skip_schools[1])
  IN SelectSeq(SelectSeq(SelectSeq(all, InCity), Rated), Kept)

\* hasattr(locate_address, 'cache') is false: load the file if it exists
InitialCache(d) == IF d = None THEN EmptyCache ELSE load_locations(d[1])

\* A registration by every call
RegisterAlways(has, n) == n + 1

\* atexit.register(save_locations, ...) on the first call only
RegisterAtexit(has, n) == IF has THEN n ELSE n + 1

\* assign_metros: the heap with s.station set for every active school
assign_metros(hp, act, tree) ==
  [j \in 1..Len(hp) |->
     IF \E i \in 1..Len(act) : act[i] = j
     THEN [hp[j] EXCEPT !.station =
             Some(AssignStation(tree, hp[j].lat[1], hp[j].lng[1]).station)]
     ELSE hp[j]]

\* School.short_name
ShortName(sc) == IF sc.number # None THEN IntStr(sc.number[1]) ELSE sc.name

RatingsOf(hp, act) == {hp[act[i]].rating : i \in 1..Len(act)}
MinOf(S) == CHOOSE x \in S : \A y \in S : x <= y
MaxOf(S) == CHOOSE x \in S : \A y \in S : y <= x


House(address, lat, lng) == [address |-> address, lat |-> lat, lng |-> lng]

\* generate_webpage, "First plot the houses"
RECURSIVE HouseMarks(_, _, _)
HouseMarks(hp, act, i) ==
  IF i > Len(act) THEN <<>>
  ELSE [j \in 1..Len(hp[act[i]].houses) |->
          [kind |-> "house",
           lat |-> hp[act[i]].houses[j].lat,
           lng |-> hp[act[i]].houses[j].lng,
           address |-> hp[act[i]].houses[j].address,
           caption |-> ShortName(hp[act[i]])]]
       \o HouseMarks(hp, act, i + 1)

\* generate_webpage, "Then schools on top"; ties[r] is the direction of the
\* rounding of rating r's colour
SchoolMarks(hp, act, rmin, rmax, ties) ==
  [i \in 1..Len(act) |->
     [kind |-> "school",
      lat |-> hp[act[i]].lat[1],
      lng |-> hp[act[i]].lng[1],
      caption |-> ShortName(hp[act[i]]),
      rating |-> hp[act[i]].rating,
      address |-> hp[act[i]].address[1],
      color |-> rating_to_color(hp[act[i]].rating, rmin, rmax,
                                ties[hp[act[i]].rating]).color]]

----------------------------------------------------------------------------
\* Spec: one run of main, from the command line to the exit of the process

NoCall == [n |-> 0, query |-> <<>>, hit |-> FALSE, request |-> FALSE,
           result |-> NotFound]

MainInit ==
  /\ \/ /\ args \in { Args(FALSE, TRUE, CityName, FALSE, None, None, FALSE),
                      Args(TRUE, FALSE, CityName, FALSE, None, None, FALSE),
                      Args(TRUE, TRUE, <<"X">>, FALSE, None, None, FALSE) }
        /\ rating_file = <<>>
     \/ /\ args \in { Args(TRUE, TRUE, CityName, co, mr, sk, hm) :
                        co \in BOOLEAN, mr \in MinRatings, sk \in SkipPatterns,
                        hm \in BOOLEAN }
        /\ rating_file \in MainFilesOf(MaxSchools)
  /\ disk \in DiskStates
  /\ pc = "start"
  /\ heap = <<>>
  /\ active = <<>>
  /\ school_idx = <<>>
  /\ ri = 1
  /\ hasCache = FALSE
  /\ geocache = EmptyCache
  /\ loaded = EmptyCache
  /\ handlers = 0
  /\ requests = <<>>
  /\ last = NoCall
  /\ saves = 0
  /\ sheets = 0
  /\ rows = 0
  /\ cur = 0
  /\ marks = <<>>
  /\ exitKind = "none"
  /\ crashAt = "none"

\* An uncaught exception ends main; the interpreter then exits
Crash(where) ==
  /\ pc' = "exit"
  /\ exitKind' = "exception"
  /\ crashAt' = where

\* The cache a call of locate_address works on: created on the first call
Before == IF hasCache THEN geocache ELSE InitialCache(disk)

\* One call of locate_address from main
Call(query, is_org, resp) ==
  locate_address(query, Before, args.cache_only, is_org, resp)

\* What the call r for query leaves behind
Located(query, r) ==
  /\ hasCache' = TRUE
  /\ handlers' = RegisterAtexit(hasCache, handlers)
  /\ loaded' = IF hasCache THEN loaded ELSE Before
  /\ geocache' = r.cache
  /\ requests' = IF r.request
                 THEN Append(requests, [query |-> query, ok |-> r.result # NotFound,
                                        result |-> r.result])
                 ELSE requests
  /\ last' = [n |-> last.n + 1, query |-> query, hit |-> query \in DOMAIN Before,
              request |-> r.request, result |-> r.result]

\* The checks of the command line: error() exits the process
Main_Args ==
  /\ pc = "start"
  /\ IF ~args.jsapi_key \/ ~args.places_key \/ ~KnownCity(args.city)
     THEN /\ pc' = "exit"
          /\ exitKind' = "fatal"
     ELSE /\ pc' = "parse"
          /\ UNCHANGED exitKind
  /\ UNCHANGED <<args, rating_file, disk, heap, active, school_idx, ri, hasCache,
                 geocache, loaded, handlers, requests, last, saves, sheets, rows,
                 cur, marks, crashAt>>

\* parse_rating and the three filters
Main_Parse ==
  /\ pc = "parse"
  /\ \E r \in {parse_rating(rating_file)} :
        IF r.raised
        THEN /\ Crash("parse_rating")
             /\ UNCHANGED <<heap, active, school_idx>>
        ELSE /\ heap' = r.schools
             /\ school_idx' = r.idx
             /\ active' = FilterSchools(r.schools, args)
             /\ pc' = "resolve"
             /\ UNCHANGED <<exitKind, crashAt>>
  /\ UNCHANGED <<args, rating_file, disk, ri, hasCache, geocache, loaded, handlers,
                 requests, last, saves, sheets, rows, cur, marks>>

\* One iteration of "for s in schools":
\* s.address, s.lat, s.lng = locate_address(s.name + ' ' + s.city, ...)
Main_Resolve ==
  /\ pc = "resolve"
  /\ ri <= Len(active)
  /\ \E resp \in Responses :
       \E query \in {heap[active[ri]].name \o <<Space>> \o heap[active[ri]].city} :
         \E r \in {Call(query, TRUE, resp)} :
           /\ Located(query, r)
           /\ heap' = [heap EXCEPT ![active[ri]].address = r.result[1],
                                   ![active[ri]].lat = r.result[2],
                                   ![active[ri]].lng = r.result[3]]
  /\ ri' = ri + 1
  /\ UNCHANGED <<args, rating_file, disk, pc, active, school_idx, saves, sheets,
                 rows, cur, marks, exitKind, crashAt>>

\* The end of the loop: schools = [s for s in schools if s.address is not None],
\* then "if args.house_map is not None"
Main_Resolved ==
  /\ pc = "resolve"
  /\ ri > Len(active)
  /\ LET Located_(j) == heap[j].address # None
     IN active' = SelectSeq(active, Located_)
  /\ pc' = IF args.house_map THEN "sheets" ELSE "metro"
  /\ UNCHANGED <<args, rating_file, disk, heap, school_idx, ri, hasCache, geocache,
                 loaded, handlers, requests, last, saves, sheets, rows, cur, marks,
                 exitKind, crashAt>>

\* One iteration of "for sht in wb.sheets()", up to the loop over its rows
Main_Sheet ==
  /\ pc = "sheets"
  /\ sheets < MaxSheets
  /\ \E name \in SheetNames :
       LET num == SheetNumber(name)
       IN IF num # None /\ num[1] \in DOMAIN school_idx
          THEN /\ cur' = school_idx[num[1]]
               /\ rows' = 0
               /\ pc' = "rows"
          ELSE \* no number in the name, or "unknown school no.": next sheet
               /\ UNCHANGED <<cur, rows, pc>>
  /\ sheets' = sheets + 1
  /\ UNCHANGED <<args, rating_file, disk, heap, active, school_idx, ri, hasCache,
                 geocache, loaded, handlers, requests, last, saves, marks,
                 exitKind, crashAt>>

\* The workbook has no more sheets
Main_SheetsDone ==
  /\ pc = "sheets"
  /\ pc' = "metro"
  /\ UNCHANGED <<args, rating_file, disk, heap, active, school_idx, ri, hasCache,
                 geocache, loaded, handlers, requests, last, saves, sheets, rows,
                 cur, marks, exitKind, crashAt>>

\* The call of locate_address for a row whose cell matched with group g
Main_RowLocate(g, resp) ==
  \E query \in {g \o <<Space>> \o CityName} :
    \E r \in {Call(query, FALSE, resp)} :
      /\ Located(query, r)
      /\ heap' = IF r.result[1] # None
                 THEN [heap EXCEPT ![cur].houses =
                         Append(@, House(r.result[1][1], r.result[2][1],
                                         r.result[3][1]))]
                 ELSE heap

\* One iteration of "for r in range(sht.nrows)"
Main_Row ==
  /\ pc = "rows"
  /\ rows < MaxRows
  /\ rows' = rows + 1
  /\ \E cell \in RowCells, resp \in Responses :
       \E g \in {HouseMatch(cell)} :
          IF g = None
          THEN \* "unknown house address format"
               UNCHANGED <<pc, heap, hasCache, geocache, loaded, handlers,
                           requests, last, exitKind, crashAt>>
          ELSE IF km2lng_raises(heap[cur].lat)
          THEN /\ Crash("km2lng")
               /\ UNCHANGED <<heap, hasCache, geocache, loaded, handlers,
                              requests, last>>
          ELSE /\ Main_RowLocate(g[1], resp)
               /\ UNCHANGED <<pc, exitKind, crashAt>>
  /\ UNCHANGED <<args, rating_file, disk, active, school_idx, ri, saves, sheets,
                 cur, marks>>

\* The sheet has no more rows
Main_RowsDone ==
  /\ pc = "rows"
  /\ pc' = "sheets"
  /\ UNCHANGED <<args, rating_file, disk, heap, active, school_idx, ri, hasCache,
                 geocache, loaded, handlers, requests, last, saves, sheets, rows,
                 cur, marks, exitKind, crashAt>>

\* load_metro_map and assign_metros
Main_Assign ==
  /\ pc = "metro"
  /\ heap' = assign_metros(heap, active, load_metro_map(MetroStations))
  /\ pc' = "render"
  /\ UNCHANGED <<args, rating_file, disk, active, school_idx, ri, hasCache,
                 geocache, loaded, handlers, requests, last, saves, sheets, rows,
                 cur, marks, exitKind, crashAt>>

\* generate_webpage, then "return 0".  With schools to plot and one rating
\* only, rating_to_color divides by zero.
Main_Render ==
  /\ pc = "render"
  /\ IF active = <<>>
     THEN /\ marks' = <<>>
          /\ pc' = "exit"
          /\ exitKind' = "return"
          /\ UNCHANGED crashAt
     ELSE \E rs \in {RatingsOf(heap, active)} :
            \E rmin \in {MinOf(rs)}, rmax \in {MaxOf(rs)} :
              IF rating_to_color(heap[active[1]].rating, rmin, rmax, 0).raised
              THEN /\ Crash("rating_to_color")
                   /\ UNCHANGED marks
              ELSE /\ \E ties \in [rs -> {0, 1}] :
                        marks' = HouseMarks(heap, active, 1)
                                 \o SchoolMarks(heap, active, rmin, rmax, ties)
                   /\ pc' = "exit"
                   /\ exitKind' = "return"
                   /\ UNCHANGED crashAt
  /\ UNCHANGED <<args, rating_file, disk, heap, active, school_idx, ri, hasCache,
                 geocache, loaded, handlers, requests, last, saves, sheets, rows,
                 cur>>

\* The interpreter exits (after return, sys.exit or an uncaught exception):
\* every atexit registration runs save_locations(cache, cache_file)
Main_Exit ==
  /\ pc = "exit"
  /\ pc' = "exited"
  /\ saves' = saves + handlers
  /\ disk' = IF handlers > 0 THEN Some(save_locations(geocache)) ELSE disk
  /\ UNCHANGED <<args, rating_file, heap, active, school_idx, ri, hasCache,
                 geocache, loaded, handlers, requests, last, sheets, rows, cur,
                 marks, exitKind, crashAt>>

----------------------------------------------------------------------------
\* SpecCache: a cache saved at exit and loaded by the next run

\* The queries locate_address is called with
SchoolQueries(lines) ==
  {r.school.name \o <<Space>> \o r.school.city :
     r \in {x \in {ParseLine(l) : l \in lines} : x.kind = "record"}}

HouseQueries ==
  {g[1] \o <<Space>> \o CityName : g \in {HouseMatch(c) : c \in RowCells} \ {None}}

\* "1.  (0)": a school with an empty name
EmptyNameLine == <<"1", ".", " ", " ", "(", "0", ")">>

CacheKeys == SchoolQueries(MainLines \cup {EmptyNameLine}) \cup HouseQueries

\* What a successful lookup stores
CacheValues ==
  {locate_address(<<>>, EmptyCache, FALSE, org, resp).cache[<<>>] :
     org \in BOOLEAN, resp \in {x \in Responses : x.status = StatusOK /\ Len(x.features) > 0}}

CacheMaps ==
  UNION {[ks -> CacheValues] : ks \in {x \in SUBSET CacheKeys : Cardinality(x) <= MaxEntries}}

CacheInit ==
  /\ cmap \in CacheMaps
  /\ cfile = <<>>
  /\ cback = EmptyCache
  /\ cpc = "held"

\* save_locations at exit
Cache_Save ==
  /\ cpc = "held"
  /\ cfile' = save_locations(cmap)
  /\ cpc' = "saved"
  /\ UNCHANGED <<cmap, cback>>

\* load_locations by the first call of the next run
Cache_Load ==
  /\ cpc = "saved"
  /\ cback' = load_locations(cfile)
  /\ cpc' = "loaded"
  /\ UNCHANGED <<cmap, cfile>>

----------------------------------------------------------------------------
\* SpecKd: assign_metros for one school over a map of stations

Coords == 0..2

\* The maps with n stations or fewer, named by their position
RECURSIVE StationLists(_)
StationLists(n) ==
  IF n = 0 THEN {<<>>}
  ELSE LET shorter == StationLists(n - 1)
       IN shorter \cup
          {Append(l, Station(IntStr(Len(l) + 1), <<"X">>, y, x)) :
             l \in {m \in shorter : Len(m) = n - 1}, y \in Coords, x \in Coords}

\* A school located at (lat, lng)
LocatedSchool(lat, lng) ==
  [School(<<"a">>, CityName, None, 0) EXCEPT
     !.address = Some(<<"X">>), !.lat = Some(lat), !.lng = Some(lng)]

KdInit ==
  /\ kstations \in StationLists(MaxStations) \ {<<>>}
  /\ kheap \in {<<LocatedSchool(y, x)>> : y \in Coords, x \in Coords}
  /\ kpc = "query"

Kd_Assign ==
  /\ kpc = "query"
  /\ kheap' = assign_metros(kheap, <<1>>, load_metro_map(kstations))
  /\ kpc' = "assigned"
  /\ UNCHANGED kstations

----------------------------------------------------------------------------
\* SpecColor: rating_to_color on two ratings of one range

Ratings == (0 - MaxRating)..MaxRating

ColorInit ==
  /\ crange \in {<<lo, hi>> : lo \in Ratings, hi \in Ratings}
  /\ crange[1] < crange[2]
  /\ cratings \in {<<r1, r2>> : r1 \in Ratings, r2 \in Ratings}
  /\ crange[1] <= cratings[1]
  /\ cratings[1] <= cratings[2]
  /\ cratings[2] <= crange[2]
  /\ cchannels = <<>>
  /\ ccolors = <<>>
  /\ colpc = "rated"

\* The two calls; equal ratings are one computation, with one rounding
Color_Map ==
  /\ colpc = "rated"
  /\ \E t1 \in {0, 1}, t2 \in {0, 1} :
       /\ cratings[1] = cratings[2] => t1 = t2
       /\ cchannels' = <<Channels(cratings[1], crange[1], crange[2], t1),
                         Channels(cratings[2], crange[1], crange[2], t2)>>
       /\ ccolors' = <<rating_to_color(cratings[1], crange[1], crange[2], t1).color,
                       rating_to_color(cratings[2], crange[1], crange[2], t2).color>>
  /\ colpc' = "colored"
  /\ UNCHANGED <<crange, cratings>>

----------------------------------------------------------------------------
\* The specifications

vars == <<pvars, mvars, cvars, kvars, colvars>>

\* The variables of a part that a specification leaves idle
ParseIdle ==
  /\ pfile = <<>>
  /\ ppos = 0
  /\ ppc = "idle"
  /\ pschools = <<>>
  /\ pidx = <<>>
  /\ pwarns = 0
  /\ plast = "none"

MainIdle ==
  /\ args = Args(TRUE, TRUE, CityName, FALSE, None, None, FALSE)
  /\ rating_file = <<>>
  /\ disk = None
  /\ pc = "idle"
  /\ heap = <<>>
  /\ active = <<>>
  /\ school_idx = <<>>
  /\ ri = 1
  /\ hasCache = FALSE
  /\ geocache = EmptyCache
  /\ loaded = EmptyCache
  /\ handlers = 0
  /\ requests = <<>>
  /\ last = NoCall
  /\ saves = 0
  /\ sheets = 0
  /\ rows = 0
  /\ cur = 0
  /\ marks = <<>>
  /\ exitKind = "none"
  /\ crashAt = "none"

CacheIdle ==
  /\ cmap = EmptyCache
  /\ cfile = <<>>
  /\ cback = EmptyCache
  /\ cpc = "idle"

KdIdle ==
  /\ kstations = <<>>
  /\ kheap = <<>>
  /\ kpc = "idle"

ColorIdle ==
  /\ crange = <<0, 0>>
  /\ cratings = <<0, 0>>
  /\ cchannels = <<>>
  /\ ccolors = <<>>
  /\ colpc = "idle"

\* One run of main
Init ==
  /\ MainInit
  /\ ParseIdle /\ CacheIdle /\ KdIdle /\ ColorIdle

Next ==
  \/ Main_Args /\ UNCHANGED <<pvars, cvars, kvars, colvars>>
  \/ Main_Parse /\ UNCHANGED <<pvars, cvars, kvars, colvars>>
  \/ Main_Resolve /\ UNCHANGED <<pvars, cvars, kvars, colvars>>
  \/ Main_Resolved /\ UNCHANGED <<pvars, cvars, kvars, colvars>>
  \/ Main_Sheet /\ UNCHANGED <<pvars, cvars, kvars, colvars>>
  \/ Main_SheetsDone /\ UNCHANGED <<pvars, cvars, kvars, colvars>>
  \/ Main_Row /\ UNCHANGED <<pvars, cvars, kvars, colvars>>
  \/ Main_RowsDone /\ UNCHANGED <<pvars, cvars, kvars, colvars>>
  \/ Main_Assign /\ UNCHANGED <<pvars, cvars, kvars, colvars>>
  \/ Main_Render /\ UNCHANGED <<pvars, cvars, kvars, colvars>>
  \/ Main_Exit /\ UNCHANGED <<pvars, cvars, kvars, colvars>>

Spec == Init /\ [][Next]_vars

\* parse_rating, line by line
InitParse ==
  /\ ParseInit
  /\ MainIdle /\ CacheIdle /\ KdIdle /\ ColorIdle

NextParse ==
  \/ ParseStep /\ UNCHANGED <<mvars, cvars, kvars, colvars>>
  \/ ParseReturn /\ UNCHANGED <<mvars, cvars, kvars, colvars>>

SpecParse == InitParse /\ [][NextParse]_vars

\* The cache file round trip
InitCache ==
  /\ CacheInit
  /\ MainIdle /\ ParseIdle /\ KdIdle /\ ColorIdle

NextCache ==
  \/ Cache_Save /\ UNCHANGED <<mvars, pvars, kvars, colvars>>
  \/ Cache_Load /\ UNCHANGED <<mvars, pvars, kvars, colvars>>

SpecCache == InitCache /\ [][NextCache]_vars

\* The nearest station
InitKd ==
  /\ KdInit
  /\ MainIdle /\ ParseIdle /\ CacheIdle /\ ColorIdle

NextKd == Kd_Assign /\ UNCHANGED <<mvars, pvars, cvars, colvars>>

SpecKd == InitKd /\ [][NextKd]_vars

\* The colour of a rating
InitColor ==
  /\ ColorInit
  /\ MainIdle /\ ParseIdle /\ CacheIdle /\ KdIdle

NextColor == Color_Map /\ UNCHANGED <<mvars, pvars, cvars, kvars>>

SpecColor == InitColor /\ [][NextColor]_vars

----------------------------------------------------------------------------
\* Properties of locate_address and of the cache within one run (Spec)

\* C1: a call of locate_address issues a request only if its query is absent
\* from the cache and cache-only mode is off; a call whose query is cached
\* issues none; a call in cache-only mode issues none and, on a miss, returns
\* (None, None, None) and leaves the cache as it was.
C1_RequestOnlyOnOnlineMiss ==
  [][last'.n # last.n =>
       /\ (last'.request <=> Len(requests') = Len(requests) + 1)
       /\ (~last'.request => requests' = requests)
       /\ (last'.request => last'.query \notin DOMAIN Before /\ ~args.cache_only)
       /\ (last'.query \in DOMAIN Before => ~last'.request)
       /\ (args.cache_only => ~last'.request)
       /\ (args.cache_only /\ last'.query \notin DOMAIN Before =>
              last'.result = NotFound /\ geocache' = Before)]_vars

\* A call in cache-only mode missed the cache, after a call that hit it
C1_Witness ==
  /\ args.cache_only
  /\ last.n > 1
  /\ ~last.hit
  /\ last.result = NotFound
  /\ geocache # EmptyCache

\* C2, as stated: no two requests of one run are for the same query,
\* whatever the outcome of the first.
C2_OneRequestPerQuery ==
  \A i, j \in DOMAIN requests :
     requests[i].query = requests[j].query => i = j

\* C2, amended: once a request for a query has succeeded, no later request
\* is issued for that query; only a request that failed (non-200 status or
\* zero results) may be followed by another request for the same query.
C2_NoRequestAfterSuccess ==
  \A i, j \in DOMAIN requests :
     (i < j /\ requests[i].query = requests[j].query) => ~requests[i].ok

\* A later call was answered from the entry that a request of this run stored
C2_Witness ==
  /\ last.n > 1
  /\ last.hit
  /\ ~last.request
  /\ \E i \in DOMAIN requests : requests[i].query = last.query /\ requests[i].ok

\* C3, as stated: every run that returns or exits through error() has run
\* save_locations exactly once by the time the process has ended.
C3_FlushedOnEveryPath ==
  (pc = "exited" /\ exitKind \in {"return", "fatal"}) => saves = 1

\* C3, amended: when the process has ended, save_locations has run exactly
\* once if locate_address was called at least once and not at all otherwise;
\* when it has run, the file holds the cache, which has every entry loaded at
\* the first call and an entry for every query whose request succeeded.
C3_FlushedOnceIffCalled ==
  pc = "exited" =>
    /\ saves = (IF last.n > 0 THEN 1 ELSE 0)
    /\ saves = 1 =>
         /\ disk = Some(save_locations(geocache))
         /\ \A q \in DOMAIN loaded : q \in DOMAIN geocache /\ geocache[q] = loaded[q]
         /\ \A i \in DOMAIN requests : requests[i].ok => requests[i].query \in DOMAIN geocache
    /\ saves = 0 => disk \in DiskStates /\ geocache = EmptyCache

\* A run that loaded entries, resolved another and has ended
C3_Witness ==
  /\ pc = "exited"
  /\ saves = 1
  /\ last.n > 1
  /\ loaded # EmptyCache
  /\ \E i \in DOMAIN requests : requests[i].ok

\* C11: the cache only grows and only on success: a call changes it only by
\* adding its query as one new key, when the query was not cached and the
\* request for it succeeded; a cache-only miss, a non-200 status and an empty
\* answer leave it unchanged; no key is removed or given another value; no
\* other step touches it; and a call answered from an entry that a request
\* of this run stored returns the triple that request returned.
C11_CacheGrowsOnSuccessOnly ==
  [][/\ last'.n = last.n => (geocache' = geocache /\ hasCache' = hasCache)
     /\ last'.n # last.n =>
          /\ \A q \in DOMAIN Before : q \in DOMAIN geocache' /\ geocache'[q] = Before[q]
          /\ DOMAIN geocache' \subseteq DOMAIN Before \cup {last'.query}
          /\ geocache' # Before =>
               /\ last'.query \notin DOMAIN Before
               /\ last'.request
               /\ last'.result # NotFound
          /\ last'.result = NotFound => geocache' = Before
          /\ (last'.request /\ last'.result # NotFound) =>
               last'.query \in DOMAIN geocache'
          /\ last'.query \in DOMAIN Before =>
               /\ geocache' = Before
               /\ \A i \in DOMAIN requests :
                    (requests[i].query = last'.query /\ requests[i].ok) =>
                       last'.result = requests[i].result]_vars

\* A call was answered from an entry a request of this run stored, in a run
\* where another request failed and the cache file had entries
C11_Witness ==
  /\ last.hit
  /\ last.result # NotFound
  /\ loaded # EmptyCache
  /\ \E i \in DOMAIN requests : requests[i].query = last.query /\ requests[i].ok
  /\ \E i \in DOMAIN requests : ~requests[i].ok

\* C12: a zero-width rating range is handled: when every active school has
\* the same rating, generate_webpage does not fail on the division by
\* (rmax - rmin), and main returns with a mark of a six-digit colour for
\* every active school.
C12_ZeroWidthRangeRenders ==
  (/\ pc \in {"exit", "exited"}
   /\ active # <<>>
   /\ Cardinality(RatingsOf(heap, active)) = 1
   /\ crashAt \notin {"parse_rating", "km2lng"}) =>
     /\ exitKind = "return"
     /\ crashAt = "none"
     /\ \A i \in 1..Len(active) :
          \E j \in DOMAIN marks : marks[j].kind = "school" /\ Len(marks[j].color) = 6

\* C5: a failed resolution never aborts the run: main does not end with the
\* exception that km2lng raises on the coordinates of a school that was not
\* resolved or was filtered out of the active set.
C5_FailureNeverAborts ==
  ~(exitKind = "exception" /\ crashAt = "km2lng")

----------------------------------------------------------------------------
\* Properties of parse_rating (SpecParse)

\* C4: parse_rating never raises: every line that is not blank after comment
\* stripping and trimming appends exactly one record, or gives exactly one
\* warning and no record, and the loop goes on to the next line.
C4_LineRecordsOrWarns ==
  [][(ppos' = ppos + 1 /\ Strip(StripComment(pfile[ppos'])) # <<>>) =>
       /\ ppc' = "run"
       /\ \/ Len(pschools') = Len(pschools) + 1 /\ pwarns' = pwarns
          \/ pschools' = pschools /\ pwarns' = pwarns + 1]_vars

\* C6: no record of parse_rating has the number 1567 and the index has no
\* key 1567.
C6_Renamed1567 ==
  /\ \A i \in DOMAIN pschools : pschools[i].number # Some(RenamedFrom)
  /\ RenamedFrom \notin DOMAIN pidx

\* The lines "<rank><WS><name><TAB><region><TAB><city><TAB><decimal>" with
\* the name, the city and the value of the decimal field
Decimals ==
  { <<"9">>, <<"9", "9">>, <<"9", ",", "9">>, <<"9", ".", "9">>,
    <<"9", "9", "9">> }

Shape3 ==
  { [line |-> <<"1">> \o ws \o nm \o <<Tab>> \o rg \o <<Tab>> \o ct \o <<Tab>> \o de,
     name |-> nm, city |-> ct, rating |-> FloatVal(ReplaceComma(de))] :
      ws \in {<<" ">>, <<Tab>>},
      nm \in {<<"a">>, <<"a", " ", "5">>},
      rg \in {<<"X">>, <<"M", "o">>},
      ct \in {<<"M", "o">>},
      de \in Decimals }

\* C7: a line of the dialect-3 shape, with a comma or a dot in the decimal
\* field, yields a record with the name column as name, the city column as
\* city and the value of the decimal field as rating.
C7_Dialect3Columns ==
  [][ppos' = ppos + 1 =>
       \A c \in Shape3 :
          c.line = pfile[ppos'] =>
            /\ plast' = "record"
            /\ Len(pschools') = Len(pschools) + 1
            /\ pschools'[Len(pschools')].name = c.name
            /\ pschools'[Len(pschools')].city = c.city
            /\ pschools'[Len(pschools')].rating = c.rating]_vars

----------------------------------------------------------------------------
\* Properties of the cache file (SpecCache)

\* C8: load_locations of what save_locations wrote is the mapping saved:
\* the same keys, each with the same address and coordinates.
C8_RoundTrip ==
  cpc = "loaded" => cback = cmap

----------------------------------------------------------------------------
\* Properties of the nearest station (SpecKd)

\* The squared distance of the school to a station
SchoolDist2(sc, st) ==
  (st.lat - sc.lat[1]) * (st.lat - sc.lat[1])
  + (st.lng - sc.lng[1]) * (st.lng - sc.lng[1])

\* C9: the station assign_metros gives a school is a station of the map at
\* the least planar distance over all stations of the map, as a linear scan
\* finds it; a school at the place of a station gets one at distance zero.
C9_NearestStation ==
  kpc = "assigned" =>
    /\ kheap[1].station # None
    /\ \E i \in DOMAIN kstations : kstations[i] = kheap[1].station[1]
    /\ \A i \in DOMAIN kstations :
          SchoolDist2(kheap[1], kheap[1].station[1])
            <= SchoolDist2(kheap[1], kstations[i])
    /\ (\E i \in DOMAIN kstations : SchoolDist2(kheap[1], kstations[i]) = 0)
          => SchoolDist2(kheap[1], kheap[1].station[1]) = 0

\* The school is at the place of a station that is not the root of the
\* tree of three stations
C9_Witness ==
  /\ kpc = "assigned"
  /\ Len(kstations) >= 3
  /\ SchoolDist2(kheap[1], kheap[1].station[1]) = 0
  /\ kheap[1].station[1] # load_metro_map(kstations).data

----------------------------------------------------------------------------
\* Properties of rating_to_color (SpecColor)

LowColor == <<"f", "f", "f", "f", "f", "f">>
HighColor == <<"f", "f", "0", "0", "0", "0">>

\* C10: with rmin < rmax and rmin <= r1 <= r2 <= rmax, the colour of rmin is
\* 'ffffff', the colour of rmax is 'ff0000', every channel is in 0..255, and
\* no channel at r2 is nearer to the low colour than at r1: red stays 255,
\* green and blue do not grow.
C10_EndpointsRangeMonotone ==
  colpc = "colored" =>
    /\ \A i \in 1..2 :
          /\ cratings[i] = crange[1] => ccolors[i] = LowColor
          /\ cratings[i] = crange[2] => ccolors[i] = HighColor
          /\ \A c \in 1..3 : cchannels[i][c] \in 0..255
    /\ cchannels[1][1] = 255 /\ cchannels[2][1] = 255
    /\ cchannels[2][2] <= cchannels[1][2]
    /\ cchannels[2][3] <= cchannels[1][3]

\* Two ratings strictly inside the range, the lower at an exact half
C10_Witness ==
  /\ colpc = "colored"
  /\ crange[1] < cratings[1]
  /\ cratings[1] < cratings[2]
  /\ cratings[2] < crange[2]
  /\ 2 * cratings[1] = crange[1] + crange[2]
  /\ cchannels[2][2] < cchannels[1][2]

====
